---- MODULE Spec2Model ----
(***************************************************************************)
(* BookKeepCA (src/app.py): the session-state mock database DataManager,   *)
(* the three views (login, onboarding, dashboard) and main(), which        *)
(* Streamlit runs from the top after every interaction.                    *)
(*                                                                         *)
(* Money is counted in cents (the forms step by 0.01), so 0.01 is 1.       *)
(* str(uuid.uuid4()) is a token distinct from every id in the store; it is *)
(* modelled by NewId, the successor of the largest id stored.              *)
(* Fields no operation reads back (date, description, the business's       *)
(* entity type, bn, city, province) are left out of the records.           *)
(*                                                                         *)
(* Spec is the application as main() drives it; SpecScenario is the same   *)
(* application with the inputs of the Bank/Credit Card scenario; SpecDM    *)
(* calls the methods of DataManager directly, with any arguments.          *)
(***************************************************************************)
EXTENDS Integers, Sequences, FiniteSets, TLC

VARIABLES logged_in, user, menu, db, view

vars == <<logged_in, user, menu, db, view>>

(* ----------------------------- bounds -------------------------------- *)

\* accounts plus transactions the store may hold in the explored runs
MaxRecords == 5

\* inputs typed into the forms, and arguments given to DataManager
Emails == {"demo@business.ca", "other@business.ca"}
BusinessNames == {"", "Maple Leaf Consulting Inc."}
AccountNameInputs == {"", "Main Chequing"}
OpeningBalanceInputs == {-30000}
AccountTypeInputs == {"Credit Card", "Cash"}
AmountInputs == {0, 15000, 20000}
\* the scenario of the Bank and the Credit Card account: its user, its three
\* amounts, and one more account
ScenarioEmails == {"demo@business.ca"}
ScenarioAmounts == {15000, 20000, 100000}
ScenarioAccountNames == {"Petty Cash"}
ScenarioAccountTypes == {"Cash"}
CategoryInputs == {"Sales"}
DMAmounts == {-15000, 0, 15000}
DMEmails == {"demo@business.ca"}
DMBusinessNames == {"Maple Leaf Consulting Inc."}
DMAccountNames == {"Savings"}

(* ---------------------------- constants ------------------------------ *)

MENU == <<"Overview", "Transactions", "Accounts", "Settings">>
TX_TYPES == <<"Outflow", "Inflow", "Transfer">>
ACCOUNT_TYPES == <<"Bank", "Credit Card", "Cash">>
\* number_input("Amount ($)", min_value=0.01), in cents
min_value == 1

Range(s) == {s[i] : i \in DOMAIN s}

\* Python's None
None == "None"

(* ------------------------- DataManager ------------------------------- *)

EmptyDb == [businesses |-> <<>>, accounts |-> <<>>, transactions |-> <<>>]

StoredIds(d) == {d.businesses[i].id : i \in DOMAIN d.businesses} \cup {d.accounts[i].id : i \in DOMAIN d.accounts} \cup {d.transactions[i].id : i \in DOMAIN d.transactions}

NewId(d) == IF StoredIds(d) = {} THEN 1 ELSE 1 + CHOOSE m \in StoredIds(d) : \A x \in StoredIds(d) : x <= m

create_account(d, business_id, name, type_, balance) ==
    LET acc == [id |-> NewId(d), business_id |-> business_id, name |-> name,
                type |-> type_, initial_balance |-> balance, is_active |-> TRUE]
    IN  [d EXCEPT !.accounts = Append(@, acc)]

\* create_business with the two default accounts created in the other order
create_business_swapped(d, user_email, data) ==
    LET bus_id == NewId(d)
        d1 == [d EXCEPT !.businesses = Append(@, [id |-> bus_id, name |-> data.name, owner_email |-> user_email])]
        d2 == create_account(d1, bus_id, "Corporate Card", "Credit Card", 0)
        d3 == create_account(d2, bus_id, "Main Chequing", "Bank", 0)
    IN  [db |-> d3, bus_id |-> bus_id]

\* returns the store after the call and the returned bus_id
create_business(d, user_email, data) ==
    LET bus_id == NewId(d)
        d1 == [d EXCEPT !.businesses = Append(@, [id |-> bus_id, name |-> data.name, owner_email |-> user_email])]
        d2 == create_account(d1, bus_id, "Main Chequing", "Bank", 0)
        d3 == create_account(d2, bus_id, "Corporate Card", "Credit Card", 0)
    IN  [db |-> d3, bus_id |-> bus_id]

NoBusiness == [id |-> 0, name |-> None, owner_email |-> None]

\* get_business_by_user comparing data['name'] with the email
get_business_by_user_by_name(d, email) ==
    LET hits == {i \in DOMAIN d.businesses : d.businesses[i].name = email}
    IN  IF hits = {} THEN NoBusiness
        ELSE d.businesses[CHOOSE i \in hits : \A j \in hits : i <= j]

\* the first business (in the dict's insertion order) the email owns, or None
get_business_by_user(d, email) ==
    LET hits == {i \in DOMAIN d.businesses : d.businesses[i].owner_email = email}
    IN  IF hits = {} THEN NoBusiness
        ELSE d.businesses[CHOOSE i \in hits : \A j \in hits : i <= j]

get_accounts(d, business_id) == SelectSeq(d.accounts, LAMBDA a : a.business_id = business_id)

\* data: [type, amount, category, account_id, from_account_id, to_account_id];
\* the two transfer keys are 0 where the dict has no such key
add_transaction(d, business_id, data) ==
    LET tx == [id |-> NewId(d), business_id |-> business_id, type |-> data.type,
               amount |-> data.amount, category |-> data.category,
               account_id |-> data.account_id,
               from_account_id |-> data.from_account_id,
               to_account_id |-> data.to_account_id]
    IN  [d EXCEPT !.transactions = Append(@, tx)]

\* get_transactions without the business_id filter
get_transactions_unfiltered(d, business_id) == d.transactions

get_transactions(d, business_id) == SelectSeq(d.transactions, LAMBDA t : t.business_id = business_id)

(* ----------------------- dashboard_view: figures --------------------- *)

\* the loop body with the Transfer's two signs exchanged
ApplyTransaction_signs(st, t) ==
    IF ~st.ok THEN st
    ELSE IF t.type = "Inflow" THEN
        IF t.account_id \in DOMAIN st.bal
        THEN [st EXCEPT !.bal[t.account_id] = @ + t.amount]
        ELSE [st EXCEPT !.ok = FALSE]
    ELSE IF t.type = "Outflow" THEN
        IF t.account_id \in DOMAIN st.bal
        THEN [st EXCEPT !.bal[t.account_id] = @ - t.amount]
        ELSE [st EXCEPT !.ok = FALSE]
    ELSE IF t.type = "Transfer" THEN
        IF t.from_account_id \in DOMAIN st.bal /\ t.to_account_id \in DOMAIN st.bal
        THEN [st EXCEPT !.bal = [[@ EXCEPT ![t.from_account_id] = @ + t.amount] EXCEPT ![t.to_account_id] = @ - t.amount]]
        ELSE [st EXCEPT !.ok = FALSE]
    ELSE st

\* one pass of "for t in transactions"; st = [ok, bal], ok FALSE once a
\* subscript acc_balances[...] has raised KeyError
ApplyTransaction(st, t) ==
    IF ~st.ok THEN st
    ELSE IF t.type = "Inflow" THEN
        IF t.account_id \in DOMAIN st.bal
        THEN [st EXCEPT !.bal[t.account_id] = @ + t.amount]
        ELSE [st EXCEPT !.ok = FALSE]
    ELSE IF t.type = "Outflow" THEN
        IF t.account_id \in DOMAIN st.bal
        THEN [st EXCEPT !.bal[t.account_id] = @ - t.amount]
        ELSE [st EXCEPT !.ok = FALSE]
    ELSE IF t.type = "Transfer" THEN
        IF t.from_account_id \in DOMAIN st.bal /\ t.to_account_id \in DOMAIN st.bal
        THEN [st EXCEPT !.bal = [[@ EXCEPT ![t.from_account_id] = @ - t.amount] EXCEPT ![t.to_account_id] = @ + t.amount]]
        ELSE [st EXCEPT !.ok = FALSE]
    ELSE st

RECURSIVE CalculateBalancesFrom(_, _, _)
CalculateBalancesFrom(st, transactions, i) ==
    IF i > Len(transactions) THEN st
    ELSE CalculateBalancesFrom(ApplyTransaction(st, transactions[i]), transactions, i + 1)

CalculateBalances(accounts, transactions) ==
    LET acc_balances == [aid \in {accounts[i].id : i \in DOMAIN accounts} |->
                            (CHOOSE a \in Range(accounts) : a.id = aid).initial_balance]
    IN  CalculateBalancesFrom([ok |-> TRUE, bal |-> acc_balances], transactions, 1)

abs(x) == IF x < 0 THEN -x ELSE x

\* the term an account adds to "assets"
AssetsTerm(acc, bal) == IF acc.type # "Credit Card" THEN bal ELSE 0

\* liabilities adding a Credit Card's balance without abs()
LiabilitiesTerm_signed(acc, bal) ==
    IF acc.type = "Credit Card" THEN bal
    ELSE IF bal < 0 THEN abs(bal)
    ELSE 0

\* the term an account adds to "liabilities"
LiabilitiesTerm(acc, bal) ==
    IF acc.type = "Credit Card" THEN abs(bal)
    ELSE IF bal < 0 THEN abs(bal)
    ELSE 0

RECURSIVE CalculateAssets(_, _, _)
CalculateAssets(accounts, acc_balances, i) ==
    IF i > Len(accounts) THEN 0
    ELSE AssetsTerm(accounts[i], acc_balances[accounts[i].id]) + CalculateAssets(accounts, acc_balances, i + 1)

RECURSIVE CalculateLiabilities(_, _, _)
CalculateLiabilities(accounts, acc_balances, i) ==
    IF i > Len(accounts) THEN 0
    ELSE LiabilitiesTerm(accounts[i], acc_balances[accounts[i].id]) + CalculateLiabilities(accounts, acc_balances, i + 1)

BlankView(screen) == [screen |-> screen, business_id |-> 0, ok |-> TRUE, acc_balances |-> <<>>, assets |-> 0, liabilities |-> 0, net_position |-> 0, message |-> ""]

\* what one run of dashboard_view(business) computes before it draws the tab
dashboard_view(d, business) ==
    LET accounts == get_accounts(d, business.id)
        transactions == get_transactions(d, business.id)
        st == CalculateBalances(accounts, transactions)
        assets == CalculateAssets(accounts, st.bal, 1)
        liabilities == CalculateLiabilities(accounts, st.bal, 1)
    IN  IF st.ok
        THEN [screen |-> "dashboard", business_id |-> business.id, ok |-> TRUE,
              acc_balances |-> st.bal, assets |-> assets, liabilities |-> liabilities,
              net_position |-> assets - liabilities, message |-> ""]
        ELSE [BlankView("dashboard") EXCEPT !.business_id = business.id, !.ok = FALSE, !.message = "KeyError"]

\* one run of the script: main()
main(d, is_logged_in, email) ==
    IF ~is_logged_in THEN BlankView("login")
    ELSE LET business == get_business_by_user(d, email)
         IN  IF business = NoBusiness THEN BlankView("onboarding")
             ELSE dashboard_view(d, business)

(* ------------------- dashboard_view: the forms ----------------------- *)

\* acc_options built as {a['name']: a['business_id'] for a in accounts}
acc_options_business_id(accounts) ==
    [n \in {accounts[i].name : i \in DOMAIN accounts} |->
        LET idx == {i \in DOMAIN accounts : accounts[i].name = n}
        IN  accounts[CHOOSE i \in idx : \A j \in idx : j <= i].business_id]

\* {a['name']: a['id'] for a in accounts}: a later account of the same name
\* replaces the earlier one
acc_options(accounts) ==
    [n \in {accounts[i].name : i \in DOMAIN accounts} |->
        LET idx == {i \in DOMAIN accounts : accounts[i].name = n}
        IN  accounts[CHOOSE i \in idx : \A j \in idx : j <= i].id]

\* the "To Account" selectbox offering every name
to_account_options_all(options, account_name) == DOMAIN options

\* the options of the "To Account" selectbox
to_account_options(options, account_name) == {n \in DOMAIN options : n # account_name}

tx_data(tx_type, amount, category, options, account_name, to_account_name) ==
    [type |-> tx_type, amount |-> amount,
     category |-> IF tx_type = "Transfer" THEN "Transfer" ELSE category,
     account_id |-> options[account_name],
     from_account_id |-> IF tx_type = "Transfer" THEN options[account_name] ELSE 0,
     to_account_id |-> IF tx_type = "Transfer" THEN options[to_account_name] ELSE 0]

(* ------------------------------ state -------------------------------- *)

Init ==
    /\ logged_in = FALSE
    /\ user = None
    /\ menu = "Overview"
    /\ db = EmptyDb
    /\ view = BlankView("login")

Records(d) == Len(d.accounts) + Len(d.transactions)

CurrentBusiness == get_business_by_user(db, user)

OnDashboard == logged_in /\ CurrentBusiness # NoBusiness

\* login_view: "Log In / Start Demo"
LogIn(email) ==
    /\ ~logged_in
    /\ user' = email
    /\ logged_in' = TRUE
    /\ menu' = "Overview"
    /\ db' = db
    /\ view' = main(db', TRUE, email)

\* onboarding_view: "Launch Dashboard"
LaunchDashboard(bus_name) ==
    /\ logged_in
    /\ CurrentBusiness = NoBusiness
    /\ Records(db) + 2 <= MaxRecords
    /\ IF bus_name # ""
       THEN /\ db' = create_business(db, user, [name |-> bus_name]).db
            /\ view' = main(db', logged_in, user)
       ELSE /\ db' = db
            /\ view' = [BlankView("onboarding") EXCEPT !.message = "Business Name is required."]
    /\ UNCHANGED <<logged_in, user, menu>>

\* dashboard_view: the sidebar's Navigation radio
Navigate(m) ==
    /\ OnDashboard
    /\ m \in Range(MENU)
    /\ m # menu
    /\ menu' = m
    /\ view' = main(db, logged_in, user)
    /\ UNCHANGED <<logged_in, user, db>>

\* dashboard_view: "Log Out": st.session_state.clear(), and the next run of
\* the script builds DataManager() over a session state without 'db'
LogOut ==
    /\ OnDashboard
    /\ logged_in' = FALSE
    /\ user' = None
    /\ menu' = "Overview"
    /\ db' = EmptyDb
    /\ view' = main(db', FALSE, None)

\* dashboard_view, Transactions tab: "Save Transaction"; the two selectboxes
\* return one of the options they were given
SaveTransaction(tx_type, amount, category) ==
    /\ OnDashboard
    /\ menu = "Transactions"
    /\ tx_type \in Range(TX_TYPES)
    /\ Records(db) < MaxRecords
    /\ amount >= min_value
    /\ LET options == acc_options(get_accounts(db, CurrentBusiness.id))
       IN  \E account_name \in DOMAIN options :
           \E to_account_name \in (IF tx_type = "Transfer" THEN to_account_options(options, account_name) ELSE {None}) :
               db' = add_transaction(db, CurrentBusiness.id, tx_data(tx_type, amount, category, options, account_name, to_account_name))
    /\ view' = main(db', logged_in, user)
    /\ UNCHANGED <<logged_in, user, menu>>

\* dashboard_view, Accounts tab: "Create"
CreateAccount(aname, atype, abal) ==
    /\ OnDashboard
    /\ menu = "Accounts"
    /\ atype \in Range(ACCOUNT_TYPES)
    /\ Records(db) < MaxRecords
    /\ db' = create_account(db, CurrentBusiness.id, aname, atype, abal)
    /\ view' = main(db', logged_in, user)
    /\ UNCHANGED <<logged_in, user, menu>>

Next ==
    \/ \E email \in Emails : LogIn(email)
    \/ \E bus_name \in BusinessNames : LaunchDashboard(bus_name)
    \/ \E m \in Range(MENU) : Navigate(m)
    \/ LogOut
    \/ \E tx_type \in Range(TX_TYPES), amount \in AmountInputs, category \in CategoryInputs : SaveTransaction(tx_type, amount, category)
    \/ \E aname \in AccountNameInputs, atype \in AccountTypeInputs, abal \in OpeningBalanceInputs : CreateAccount(aname, atype, abal)

Spec == Init /\ [][Next]_vars

\* the same application, driven with the scenario's inputs
NextScenario ==
    \/ \E email \in ScenarioEmails : LogIn(email)
    \/ \E bus_name \in BusinessNames : LaunchDashboard(bus_name)
    \/ \E m \in Range(MENU) : Navigate(m)
    \/ LogOut
    \/ \E tx_type \in Range(TX_TYPES), amount \in ScenarioAmounts, category \in CategoryInputs : SaveTransaction(tx_type, amount, category)
    \/ \E aname \in ScenarioAccountNames, atype \in ScenarioAccountTypes, abal \in OpeningBalanceInputs : CreateAccount(aname, atype, abal)

SpecScenario == Init /\ [][NextScenario]_vars

(* ------------- DataManager called directly, with any arguments ------- *)

BusinessIds(d) == {d.businesses[i].id : i \in DOMAIN d.businesses}

AccountIds(d) == {d.accounts[i].id : i \in DOMAIN d.accounts}

DMCreateBusiness(user_email, bus_name) ==
    /\ Records(db) + 2 <= MaxRecords
    /\ db' = create_business(db, user_email, [name |-> bus_name]).db
    /\ UNCHANGED <<logged_in, user, menu, view>>

DMCreateAccount(business_id, name, type_, balance) ==
    /\ Records(db) < MaxRecords
    /\ db' = create_account(db, business_id, name, type_, balance)
    /\ UNCHANGED <<logged_in, user, menu, view>>

DMAddTransaction(business_id, data) ==
    /\ Records(db) < MaxRecords
    /\ db' = add_transaction(db, business_id, data)
    /\ UNCHANGED <<logged_in, user, menu, view>>

\* the dicts add_transaction is given: one account reference for Inflow and
\* Outflow, a from/to pair for Transfer, over any account ids of the store
DMTxData(d) ==
    {[type |-> ty, amount |-> am, category |-> "Sales", account_id |-> a, from_account_id |-> 0, to_account_id |-> 0] :
        ty \in {"Outflow", "Inflow"}, am \in DMAmounts, a \in AccountIds(d)}
    \cup
    {[type |-> "Transfer", amount |-> am, category |-> "Transfer", account_id |-> a, from_account_id |-> a, to_account_id |-> b] :
        am \in DMAmounts, a \in AccountIds(d), b \in AccountIds(d)}

NextDM ==
    \/ \E user_email \in DMEmails, bus_name \in DMBusinessNames : DMCreateBusiness(user_email, bus_name)
    \/ \E business_id \in BusinessIds(db), name \in DMAccountNames, type_ \in AccountTypeInputs, balance \in OpeningBalanceInputs : DMCreateAccount(business_id, name, type_, balance)
    \/ \E business_id \in BusinessIds(db), data \in DMTxData(db) : DMAddTransaction(business_id, data)

SpecDM == Init /\ [][NextDM]_vars

(* ====================== the claims, as formulas ====================== *)

RECURSIVE SumAmount(_, _)
SumAmount(txs, I) ==
    IF I = {} THEN 0
    ELSE LET i == CHOOSE k \in I : TRUE IN txs[i].amount + SumAmount(txs, I \ {i})

RECURSIVE SumOf(_, _)
SumOf(f, S) ==
    IF S = {} THEN 0
    ELSE LET x == CHOOSE k \in S : TRUE IN f[x] + SumOf(f, S \ {x})

\* opening balance plus the signed amounts of the business's transactions on acc
SignedEffects(d, acc) ==
    LET txs == d.transactions
        own == {i \in DOMAIN txs : txs[i].business_id = acc.business_id}
    IN  acc.initial_balance
        + SumAmount(txs, {i \in own : txs[i].type = "Inflow" /\ txs[i].account_id = acc.id})
        - SumAmount(txs, {i \in own : txs[i].type = "Outflow" /\ txs[i].account_id = acc.id})
        - SumAmount(txs, {i \in own : txs[i].type = "Transfer" /\ txs[i].from_account_id = acc.id})
        + SumAmount(txs, {i \in own : txs[i].type = "Transfer" /\ txs[i].to_account_id = acc.id})

AccountsOf(d, business_id) == {a \in Range(d.accounts) : a.business_id = business_id}

\* C1: whenever the dashboard is drawn, the balance it computed for each
\* account of the business is the account's initial_balance plus its Inflows,
\* minus its Outflows, minus the Transfers out of it, plus the Transfers
\* into it.
C1_BalanceIsSignedSum ==
    view.screen = "dashboard" =>
        /\ view.ok
        /\ DOMAIN view.acc_balances = {a.id : a \in AccountsOf(db, view.business_id)}
        /\ \A a \in AccountsOf(db, view.business_id) : view.acc_balances[a.id] = SignedEffects(db, a)

C1_Witness ==
    /\ view.screen = "dashboard"
    /\ Len(db.transactions) = 3
    /\ {db.transactions[i].type : i \in DOMAIN db.transactions} = Range(TX_TYPES)
    /\ \E a \in AccountsOf(db, view.business_id) : view.acc_balances[a.id] # a.initial_balance

C5_Scenario ==
    /\ view.screen = "dashboard"
    /\ Len(db.accounts) = 2
    /\ Len(db.transactions) = 3
    /\ db.accounts[1].type = "Bank" /\ db.accounts[1].initial_balance = 0
    /\ db.accounts[2].type = "Credit Card" /\ db.accounts[2].initial_balance = 0
    /\ db.transactions[1].type = "Inflow" /\ db.transactions[1].amount = 100000
    /\ db.transactions[1].account_id = db.accounts[1].id
    /\ db.transactions[2].type = "Outflow" /\ db.transactions[2].amount = 20000
    /\ db.transactions[2].account_id = db.accounts[1].id
    /\ db.transactions[3].type = "Transfer" /\ db.transactions[3].amount = 15000
    /\ db.transactions[3].from_account_id = db.accounts[1].id
    /\ db.transactions[3].to_account_id = db.accounts[2].id

C5_Kpis ==
    view.screen = "dashboard" =>
        LET accs == AccountsOf(db, view.business_id)
            bal == view.acc_balances
            absbal == [aid \in DOMAIN bal |-> IF bal[aid] < 0 THEN 0 - bal[aid] ELSE bal[aid]]
        IN  /\ view.ok
            /\ view.assets = SumOf(bal, {a.id : a \in {x \in accs : x.type # "Credit Card"}})
            /\ view.liabilities = SumOf(absbal, {a.id : a \in {x \in accs : x.type = "Credit Card" \/ bal[x.id] < 0}})
            /\ view.net_position = view.assets - view.liabilities
            /\ C5_Scenario =>
                /\ bal[db.accounts[1].id] = 65000
                /\ bal[db.accounts[2].id] = 15000
                /\ view.assets = 65000
                /\ view.liabilities = 15000
                /\ view.net_position = 50000

\* C6: a transaction, once appended, stays: no step shortens the transaction
\* list or changes the transactions already in it.
C6_AppendOnly ==
    [][/\ Len(db.transactions) <= Len(db'.transactions)
       /\ SubSeq(db'.transactions, 1, Len(db.transactions)) = db.transactions]_vars

\* C7: no two businesses have the same owner_email.
C7_OneBusinessPerOwner ==
    \A i, j \in DOMAIN db.businesses :
        db.businesses[i].owner_email = db.businesses[j].owner_email => i = j

C7_Witness ==
    /\ view.screen = "dashboard"
    /\ \E i \in DOMAIN db.businesses : db.businesses[i].owner_email = user
    /\ Len(db.transactions) > 0

\* C9: every stored transaction's account_id, and a Transfer's
\* from_account_id and to_account_id, is the id of a stored account of the
\* transaction's business; and no drawn dashboard has hit a KeyError.
C9_ReferentialIntegrity ==
    /\ \A i \in DOMAIN db.transactions :
        LET t == db.transactions[i]
            ids == {a.id : a \in AccountsOf(db, t.business_id)}
        IN  /\ t.account_id \in ids
            /\ t.type = "Transfer" => t.from_account_id \in ids /\ t.to_account_id \in ids
    /\ view.screen = "dashboard" => view.ok

C9_Witness ==
    /\ view.screen = "dashboard"
    /\ Len(db.accounts) = 3
    /\ db.accounts[3].name \in {"", db.accounts[1].name}
    /\ \E i \in DOMAIN db.transactions :
        /\ db.transactions[i].type = "Transfer"
        /\ db.accounts[3].id \in {db.transactions[i].from_account_id, db.transactions[i].to_account_id}

\* C2: add_transaction with an amount <= 0 leaves the transaction list as it was.
C2_NonPositiveAmountRejected ==
    [][\A business_id \in BusinessIds(db), data \in DMTxData(db) :
        (data.amount <= 0 /\ DMAddTransaction(business_id, data)) => db'.transactions = db.transactions]_vars

\* C4: add_transaction of a Transfer whose from_account_id or to_account_id is
\* no account of the business appends nothing and changes no computed balance.
C4_ForeignTransferRejected ==
    [][\A business_id \in BusinessIds(db), data \in DMTxData(db) :
        LET ids == {a.id : a \in AccountsOf(db, business_id)}
        IN  (/\ data.type = "Transfer"
             /\ (data.from_account_id \notin ids \/ data.to_account_id \notin ids)
             /\ DMAddTransaction(business_id, data))
            => /\ db'.transactions = db.transactions
               /\ \A b \in BusinessIds(db) :
                    CalculateBalances(get_accounts(db', b), get_transactions(db', b))
                        = CalculateBalances(get_accounts(db, b), get_transactions(db, b))]_vars

\* C8: right after create_business, the new business has exactly two
\* accounts, Main Chequing (Bank) then Corporate Card (Credit Card), both with
\* initial_balance 0, active, of distinct ids; the accounts of every other
\* business are as before.
C8_TwoDefaultAccounts ==
    [][Len(db'.businesses) > Len(db.businesses) =>
        LET bus_id == db'.businesses[Len(db'.businesses)].id
            accs == get_accounts(db', bus_id)
        IN  /\ Len(accs) = 2
            /\ accs[1].name = "Main Chequing" /\ accs[1].type = "Bank"
            /\ accs[2].name = "Corporate Card" /\ accs[2].type = "Credit Card"
            /\ \A k \in 1..2 : accs[k].initial_balance = 0 /\ accs[k].is_active /\ accs[k].business_id = bus_id
            /\ accs[1].id # accs[2].id
            /\ \A c \in BusinessIds(db) : get_accounts(db', c) = get_accounts(db, c)]_vars

C8_Witness ==
    /\ Len(db.businesses) = 2
    /\ Len(get_accounts(db, db.businesses[1].id)) = 3
    /\ Len(get_accounts(db, db.businesses[2].id)) = 2
    /\ db.accounts[Len(db.accounts)].business_id = db.businesses[2].id

\* r is the records of s whose business_id is x, in the order of s
IsSelection(r, s, x) ==
    /\ Len(r) = Cardinality({i \in DOMAIN s : s[i].business_id = x})
    /\ \A k \in DOMAIN r : r[k].business_id = x /\ r[k] \in Range(s)
    /\ \A k, l \in DOMAIN r : k < l =>
        \E i, j \in DOMAIN s : i < j /\ s[i] = r[k] /\ s[j] = r[l]

C10_Reads ==
    \A x \in BusinessIds(db) \cup {0} :
        /\ IsSelection(get_accounts(db, x), db.accounts, x)
        /\ IsSelection(get_transactions(db, x), db.transactions, x)

C10_Frame ==
    \A b \in BusinessIds(db), c \in BusinessIds(db) :
        (/\ b # c
         /\ \/ \E name \in DMAccountNames, type_ \in AccountTypeInputs, balance \in OpeningBalanceInputs : DMCreateAccount(b, name, type_, balance)
            \/ \E data \in DMTxData(db) : DMAddTransaction(b, data))
        => /\ get_accounts(db', c) = get_accounts(db, c)
           /\ get_transactions(db', c) = get_transactions(db, c)
           /\ \A k \in DOMAIN db.businesses :
                db.businesses[k].id = c => dashboard_view(db', db.businesses[k]) = dashboard_view(db, db.businesses[k])

\* C10: create_account and add_transaction for business B leave the accounts,
\* the transactions, the balances and the KPIs of every other business C as
\* they were; get_accounts(X) and get_transactions(X) are the stored records
\* of business X in insertion order, the empty list when X has none.
C10_BusinessIsolation == []C10_Reads /\ [][C10_Frame]_vars

C10_Witness ==
    /\ Len(db.businesses) = 2
    /\ Len(db.transactions) = 1
    /\ db.transactions[1].business_id = db.businesses[1].id
    /\ Len(get_transactions(db, db.businesses[2].id)) = 0
    /\ Len(get_accounts(db, db.businesses[2].id)) = 2

====
